---- MODULE Spec2Model ----
(***************************************************************************)
(* The query graph compiler of weaveio/parser.py: the Builder operations   *)
(* (make_node, add_traversal, add_filter, add_aggregation, add_operation)  *)
(* on a networkx DiGraph, and the walk of traverse_query_graph over live   *)
(* views of a working copy of that graph.                                  *)
(*                                                                         *)
(* A graph is a record                                                     *)
(*   at : node id -> [i, nm, sg, sc]  attributes i, _name, subgraph, scalars *)
(*   e  : sequence of [u, v, t]    the edges in insertion order, t = type  *)
(*   nx : the next unused node id  (ids stand for the label strings)       *)
(* Node ids grow with insertion, so id order is networkx's node order.     *)
(* An edge added without a type (add_operation's dependency edges) has     *)
(* t = "", which is what .get('type', '') reads and what ['type'] raises   *)
(* KeyError on.                                                            *)
(***************************************************************************)
EXTENDS Integers, Sequences, FiniteSets, TLC

VARIABLES G, original_graph, stack, statements, status, output, kind, steps,
          order, previous, diff, writer

vars == <<G, original_graph, stack, statements, status, output, kind, steps,
          order, previous, diff, writer>>

\* ------------------------------------------------------------------ bounds
\* Nodes a Builder session creates, the start node included.
MaxNodes == 5
\* Dependency edges a Builder session creates (add_filter, add_operation).
MaxDeps == 1
\* Aggregations a Builder session creates.
MaxAggr == 2
\* add_operation calls of a Builder session.
MaxOps == 1
\* Nodes created after the node that is designated as output.
MaxOutputAge == 1

\* Factor names a hierarchy definition may list.
MaxFactors == 3
\* Hierarchies given to write_schema.
MaxHier == 3
\* Products a hierarchy may have (they count in the sort key of write_schema).
MaxProducts == 2

NoNode == 0 - 1

\* ------------------------------------------------------------ graph basics
Nodes(g) == DOMAIN g.at

Pairs(g) == {<<g.e[k].u, g.e[k].v>> : k \in 1..Len(g.e)}

HasEdge(g, u, v) == <<u, v>> \in Pairs(g)

EdgeType(g, u, v) == LET k == CHOOSE k \in 1..Len(g.e) : g.e[k].u = u /\ g.e[k].v = v
                     IN g.e[k].t

\* graph.add_edge(u, v, type=t): a new edge is appended to u's adjacency, an
\* existing one keeps its place and has its type overwritten.
AddEdge(g, u, v, t) ==
    IF HasEdge(g, u, v)
    THEN [g EXCEPT !.e = [k \in 1..Len(g.e) |->
              IF g.e[k].u = u /\ g.e[k].v = v THEN [g.e[k] EXCEPT !.t = t] ELSE g.e[k]]]
    ELSE [g EXCEPT !.e = Append(g.e, [u |-> u, v |-> v, t |-> t])]

\* graph.add_edge(u, v) with no attributes: a new edge has no type, an existing
\* one is left as it is.
AddEdgeNoType(g, u, v) ==
    IF HasEdge(g, u, v) THEN g
    ELSE [g EXCEPT !.e = Append(g.e, [u |-> u, v |-> v, t |-> ""])]

\* The call leaves the edge in the graph.
RemoveEdgeSkipped(g, u, v) == g

\* graph.remove_edge(u, v)
RemoveEdge(g, u, v) ==
    [g EXCEPT !.e = SelectSeq(g.e, LAMBDA x : ~(x.u = u /\ x.v = v))]

RemoveNode(g, n) ==
    [g EXCEPT !.at = [m \in Nodes(g) \ {n} |-> g.at[m]],
              !.e = SelectSeq(g.e, LAMBDA x : x.u # n /\ x.v # n)]

\* list(graph.successors(u)): the targets of u's edges in insertion order.
RECURSIVE SuccSeq(_, _, _)
SuccSeq(es, u, k) ==
    IF k > Len(es) THEN <<>>
    ELSE IF es[k].u = u THEN <<es[k].v>> \o SuccSeq(es, u, k + 1)
    ELSE SuccSeq(es, u, k + 1)

Successors(g, u) == SuccSeq(g.e, u, 1)

\* The nodes from which some node of S is reached along the edge pairs EP, S included.
RECURSIVE AncFix(_, _)
AncFix(EP, S) ==
    LET S2 == S \cup {p[1] : p \in {q \in EP : q[2] \in S}}
    IN IF S2 = S THEN S ELSE AncFix(EP, S2)

\* nx.ancestors(graph, x)
Ancestors(EP, x) == AncFix(EP, {x}) \ {x}

\* ----------------------------------------------------------------- Builder
\* make_node: i = graph.number_of_nodes(), the label is built from i, the name
\* and the path of the subgraph; add_node on a label already present updates
\* the attributes of that node, otherwise the node is new.  Returns the graph
\* and the node.
make_node(g, parent, nm, sg, sc, t) ==
    LET i == Cardinality(Nodes(g))
        at == [i |-> i, nm |-> nm, sg |-> sg, sc |-> sc]
        same == {m \in Nodes(g) : g.at[m].i = i /\ g.at[m].nm = nm /\ g.at[m].sg = sg}
        id == IF same # {} THEN CHOOSE m \in same : TRUE ELSE g.nx
        g1 == [g EXCEPT !.at = [m \in Nodes(g) \cup {id} |->
                                   IF m = id THEN at ELSE g.at[m]],
                        !.nx = IF same # {} THEN g.nx ELSE g.nx + 1]
        g2 == IF parent = NoNode THEN g1 ELSE AddEdge(g1, parent, id, t)
    IN [g |-> g2, id |-> id]

EmptyGraph == [at |-> [m \in {} |-> 0], e |-> <<>>, nx |-> 0]

add_start(g) == make_node(g, NoNode, <<0>>, 0, <<>>, "")

\* The name and the reachability subgraph of a traversal are new ones.
add_traversal(g, parent) == make_node(g, parent, <<g.nx>>, g.nx, <<>>, "traversal")

RECURSIVE AddDeps(_, _, _, _)
AddDeps(g, deps, n, typed) ==
    IF deps = <<>> THEN g
    ELSE AddDeps(IF typed THEN AddEdge(g, Head(deps), n, "dep")
                 ELSE AddEdgeNoType(g, Head(deps), n),
                 Tail(deps), n, typed)

\* add_filter with each dependency edge drawn from the new node to the
\* dependency instead of from the dependency to the new node.
RECURSIVE AddDepsReversed(_, _, _)
AddDepsReversed(g, deps, n) ==
    IF deps = <<>> THEN g
    ELSE AddDepsReversed(AddEdge(g, n, Head(deps), "dep"), Tail(deps), n)

add_filter_reversed(g, parent, dependencies) ==
    LET r == make_node(g, parent, g.at[parent].nm, g.at[parent].sg, <<>>, "filter")
    IN [g |-> AddDepsReversed(r.g, dependencies, r.id), id |-> r.id]

add_filter(g, parent, dependencies) ==
    LET r == make_node(g, parent, g.at[parent].nm, g.at[parent].sg, <<>>, "filter")
    IN [g |-> AddDeps(r.g, dependencies, r.id, TRUE), id |-> r.id]

\* The new node's scalars are those of parent and the operation, which is the
\* node's name.
add_aggregation(g, parent, wrt, nm, type) ==
    LET r == make_node(g, parent, nm, g.at[wrt].sg, g.at[parent].sc \o nm, type)
    IN [g |-> AddEdge(r.g, r.id, wrt, "wrt"), id |-> r.id]

\* add_operation that appends the operation to the scalars list of parent
\* itself and gives the new node that same list.
add_operation_shared(g, parent, dependencies) ==
    LET sc == g.at[parent].sc \o <<g.nx>>
        g0 == [g EXCEPT !.at[parent].sc = sc]
        r == make_node(g0, parent, <<g.nx>>, g.at[parent].sg, sc, "operation")
    IN [g |-> AddDeps(r.g, dependencies, r.id, FALSE), id |-> r.id]

add_operation(g, parent, dependencies) ==
    LET r == make_node(g, parent, <<g.nx>>, g.at[parent].sg,
                       g.at[parent].sc \o <<g.nx>>, "operation")
    IN [g |-> AddDeps(r.g, dependencies, r.id, FALSE), id |-> r.id]

\* Dependency edges are those of type dep (add_filter) or of no type (add_operation).
DepEdges(g) == {k \in 1..Len(g.e) : g.e[k].t \in {"dep", ""}}

\* The dependencies lists a call may pass: existing nodes, as many as the
\* session's bound on dependency edges still allows.
DepLists(g) ==
    UNION {[1..k -> Nodes(g)] : k \in 0..(MaxDeps - Cardinality(DepEdges(g)))}

\* Nodes made by add_aggregation are the sources of the wrt edges.
AggrNodes(g) == {g.e[k].u : k \in {j \in 1..Len(g.e) : g.e[j].t = "wrt"}}

OpNodes(g) == {g.e[k].v : k \in {j \in 1..Len(g.e) : g.e[j].t = "operation"}}

CanBuild == status = "build" /\ Cardinality(Nodes(G)) < MaxNodes

\* The schema functions have not been called: no stored node is compared and
\* no schema is being written.
NoDiff == [found |-> {}, proposed |-> {}, other |-> FALSE, result |-> "idle"]

NoWriter == [deps |-> <<>>, template |-> <<>>, refused |-> <<>>, queue |-> <<>>,
             done |-> <<>>, executed |-> <<>>, nmisses |-> 0, st |-> "idle"]

\* A new QueryGraph: the start node only, nothing compiled.
GraphInit ==
    /\ G = add_start(EmptyGraph).g
    /\ original_graph = EmptyGraph
    /\ stack = <<>>
    /\ statements = <<>>
    /\ status = "build"
    /\ output = NoNode
    /\ kind = "idle"
    /\ steps = 0
    /\ previous = <<>>

Init ==
    /\ GraphInit
    /\ order = "any"
    /\ diff = NoDiff
    /\ writer = NoWriter

AddTraversal ==
    /\ CanBuild
    /\ \E p \in Nodes(G) : G' = add_traversal(G, p).g
    /\ UNCHANGED <<original_graph, stack, statements, status, output, kind, steps,
                   order, previous, diff, writer>>

AddFilter ==
    /\ CanBuild
    /\ \E p \in Nodes(G), deps \in DepLists(G) : G' = add_filter(G, p, deps).g
    /\ UNCHANGED <<original_graph, stack, statements, status, output, kind, steps,
                   order, previous, diff, writer>>

AddAggregation ==
    /\ CanBuild
    /\ Cardinality(AggrNodes(G)) < MaxAggr
    /\ \E p \in Nodes(G), wrt \in Nodes(G) :
          G' = add_aggregation(G, p, wrt, <<G.nx>>, "aggr").g
    /\ UNCHANGED <<original_graph, stack, statements, status, output, kind, steps,
                   order, previous, diff, writer>>

AddOperation ==
    /\ CanBuild
    /\ Cardinality(OpNodes(G)) < MaxOps
    /\ \E p \in Nodes(G), deps \in DepLists(G) : G' = add_operation(G, p, deps).g
    /\ UNCHANGED <<original_graph, stack, statements, status, output, kind, steps,
                   order, previous, diff, writer>>

Build == AddTraversal \/ AddFilter \/ AddAggregation \/ AddOperation

\* -------------------------------------------------------------------- views
\* A view is a stack of layers over the working graph, each made by one call of
\* subgraph_view: the nodes and edges it excludes are listed when the view is
\* made, the path_to filter is evaluated on the view below whenever it is read.
\* Nodes and edges added to the working graph afterwards are seen by the view
\* unless a path_to filter hides them.
Layer(hn, he, pt) == [hn |-> hn, he |-> he, pt |-> pt]

\* What the first k layers of a view show of graph g: its nodes ns, its edges
\* es (as pairs), and whether reading it raises NodeNotFound, which nx.has_path
\* does when the target of a path_to filter is not in the graph it reads.
RECURSIVE ViewOf(_, _, _)
ViewOf(g, view, k) ==
    IF k = 0 THEN [ns |-> Nodes(g), es |-> Pairs(g), broken |-> FALSE]
    ELSE LET b == ViewOf(g, view, k - 1)
             r == b.ns \ view[k].hn
             ns == IF view[k].pt = NoNode THEN r
                   ELSE r \cap AncFix(b.es, {view[k].pt})
         IN [ns |-> ns,
             es |-> {p \in b.es : p[1] \in ns /\ p[2] \in ns /\ p \notin view[k].he},
             broken |-> b.broken \/ (view[k].pt # NoNode /\ view[k].pt \notin b.ns /\ r # {})]

Shown(g, view) == ViewOf(g, view, Len(view))

\* An activation whose walk starts at the output node: the arguments output
\* and node of traverse_query_graph taken in the wrong order.
FrameSwapped(g, view, node, out, agg) ==
    LET es == Shown(g, view).es
        wrts == {p \in es : EdgeType(g, p[1], p[2]) = "wrt"}
    IN [G |-> view, dhe |-> wrts, bhe |-> es \ wrts,
        node |-> out, start |-> out, output |-> node, agg |-> agg]

\* One activation of traverse_query_graph: its view G, the edges hidden by
\* dag = subgraph_view(G, excluded_edge_type='wrt') and by
\* backwards = subgraph_view(G, only_edge_type='wrt'), which are the edges G
\* shows when the two are made, the current node, and the arguments.
Frame(g, view, node, out, agg) ==
    LET es == Shown(g, view).es
        wrts == {p \in es : EdgeType(g, p[1], p[2]) = "wrt"}
    IN [G |-> view, dhe |-> wrts, bhe |-> es \ wrts,
        node |-> node, start |-> node, output |-> out, agg |-> agg]

\* The targets (out = TRUE) or sources of the edges at n among the pairs EP, in
\* adjacency order.
RECURSIVE Adjacent(_, _, _, _, _)
Adjacent(es, EP, n, out, k) ==
    IF k > Len(es) THEN <<>>
    ELSE IF out /\ es[k].u = n /\ <<n, es[k].v>> \in EP
         THEN <<es[k].v>> \o Adjacent(es, EP, n, out, k + 1)
    ELSE IF ~out /\ es[k].v = n /\ <<es[k].u, n>> \in EP
         THEN <<es[k].u>> \o Adjacent(es, EP, n, out, k + 1)
    ELSE Adjacent(es, EP, n, out, k + 1)

\* ------------------------------------------------------------ get_branches
\* The nodes of the sub-DAG of one future aggregation A seen from parent:
\* ancestors of A that are not ancestors of parent.
SubDag(EP, ns, A, parent) == (ns \cap Ancestors(EP, A)) \ Ancestors(EP, parent)

\* The nodes a topological sort of the sub-DAG may yield first.
Sources(EP, S) == {n \in S : ~\E m \in S : <<m, n>> \in EP}

\* nx.topological_sort raises NetworkXUnfeasible on a cycle: some edge within S
\* leads to its source or to an ancestor of its source.
HasCycle(EP, S) ==
    LET EPS == {p \in EP : p[1] \in S /\ p[2] \in S}
    IN \E p \in EPS : p[2] \in AncFix(EPS, {p[1]})

\* A branch that is not given its aggregation node: [1:] + [parent].
BranchNodesNoAggregation(EP, ns, A, parent, first) ==
    (SubDag(EP, ns, A, parent) \ {first}) \cup {parent}

\* The node set of the branch list(topological_sort(sub_dag))[1:] + [A, parent],
\* `first` being the node the sort yields first.
BranchNodes(EP, ns, A, parent, first) ==
    (SubDag(EP, ns, A, parent) \ {first}) \cup {A, parent}

\* The first elements a sort may yield: networkx yields the nodes without
\* predecessors in node order from one end or the other, by its version.
FirstChoices(S) ==
    IF S = {} THEN {NoNode}
    ELSE {CHOOSE n \in S : \A m \in S : n <= m, CHOOSE n \in S : \A m \in S : n >= m}

\* Any of the candidates, whatever the topological_sort in use.
TopologicalFirstAny(S, ord) == FirstChoices(S)

\* The first node of topological_sort under one implementation: ord "first"
\* is the sort that yields the sources in node order, "last" the one that pops
\* the newest source first; "any" leaves the implementation open.
TopologicalFirst(S, ord) ==
    {n \in FirstChoices(S) :
        \/ ord = "any"
        \/ ord = "first" /\ \A m \in FirstChoices(S) : n <= m
        \/ ord = "last" /\ \A m \in FirstChoices(S) : n >= m}

\* ---------------------------------------------------------- one loop round
\* list(backwards.successors(node)) + list(dag.successors(node))
SuccessorList(g, f, es) ==
    Adjacent(g.e, es \ f.bhe, f.node, TRUE, 1) \o Adjacent(g.e, es \ f.dhe, f.node, TRUE, 1)

\* The loop with the fatal check made on one unaggregated successor or more
\* (>= 1 for > 1).
LoopKindStrict(g, f) ==
    LET v == Shown(g, f.G)
        EP == v.es \ f.dhe
        preds == Adjacent(g.e, v.es \ f.bhe, f.node, FALSE, 1)
        unagg == {p \in EP : p[1] = f.node /\ EdgeType(g, p[1], p[2]) # "load-state"}
    IN IF v.broken THEN "NodeNotFound"
       ELSE IF v.es = {} THEN "return"
       ELSE IF f.node \notin v.ns THEN "NetworkXError"
       ELSE IF \E k \in 1..Len(preds) : HasCycle(EP, SubDag(EP, v.ns, preds[k], f.node))
            THEN "Cycle"
       ELSE IF \E p \in EP : p[2] = f.node /\ EdgeType(g, p[1], p[2]) = ""
            THEN "KeyError"
       ELSE IF preds # <<>> THEN "descend"
       ELSE IF Cardinality(unagg) >= 1 THEN "Fatal"
       ELSE IF SuccessorList(g, f, v.es) = <<>> THEN "return"
       ELSE "emit"

\* What the loop of traverse_query_graph does next in activation f; the
\* variable kind holds it for the activation on top of the stack.
LoopKind(g, f) ==
    LET v == Shown(g, f.G)
        EP == v.es \ f.dhe
        preds == Adjacent(g.e, v.es \ f.bhe, f.node, FALSE, 1)
        unagg == {p \in EP : p[1] = f.node /\ EdgeType(g, p[1], p[2]) # "load-state"}
    IN IF v.broken THEN "NodeNotFound"
       ELSE IF v.es = {} THEN "return"
       ELSE IF f.node \notin v.ns THEN "NetworkXError"
       ELSE IF \E k \in 1..Len(preds) : HasCycle(EP, SubDag(EP, v.ns, preds[k], f.node))
            THEN "Cycle"
       ELSE IF \E p \in EP : p[2] = f.node /\ EdgeType(g, p[1], p[2]) = ""
            THEN "KeyError"
       ELSE IF preds # <<>> THEN "descend"
       ELSE IF Cardinality(unagg) > 1 THEN "Fatal"
       ELSE IF SuccessorList(g, f, v.es) = <<>> THEN "return"
       ELSE "emit"

\* has_outside_dependencies: any() reads the successors in order, and stops at
\* the first one outside the view; reading an edge without a type raises.
RECURSIVE OutsideScan(_, _, _, _)
OutsideScan(g, ns, node, succs) ==
    IF succs = <<>> THEN "no"
    ELSE LET t == EdgeType(g, node, Head(succs))
         IN IF t = "" THEN "KeyError"
            ELSE IF t # "load-state" /\ Head(succs) \notin ns THEN "yes"
            ELSE OutsideScan(g, ns, node, Tail(succs))

has_outside_dependencies(g, f, node) ==
    OutsideScan(g, Shown(g, f.G).ns, node, Successors(g, node))

\* --------------------------------------------------------------- save_state
SaveName == <<0 - 1>>

LoadName(nm) == <<0 - 2>> \o nm

\* The loop of save_state with one node, loaded from wrt once, to which the
\* edges of all the successors are moved.
RECURSIVE LoadStatesShared(_, _, _, _, _)
LoadStatesShared(g, wrt, node, aggregated, succs) ==
    IF succs = <<>> THEN g
    ELSE LET s == Head(succs)
         IN IF s = aggregated THEN LoadStatesShared(g, wrt, node, aggregated, Tail(succs))
            ELSE LET L == aggregated + 1
                     r == IF L \in Nodes(g) THEN [g |-> g, id |-> L]
                          ELSE make_node(g, wrt, LoadName(g.at[node].nm), g.at[node].sg, <<>>, "load-state")
                     t == EdgeType(g, node, s)
                     g1 == IF t = "" THEN AddEdgeNoType(r.g, r.id, s)
                           ELSE AddEdge(r.g, r.id, s, t)
                 IN LoadStatesShared(RemoveEdge(g1, node, s), wrt, node, aggregated, Tail(succs))

\* The loop of save_state over the successors of node other than the new
\* aggregation: each gets a node of its own, loaded from wrt.
RECURSIVE LoadStates(_, _, _, _, _)
LoadStates(g, wrt, node, aggregated, succs) ==
    IF succs = <<>> THEN g
    ELSE LET s == Head(succs)
         IN IF s = aggregated THEN LoadStates(g, wrt, node, aggregated, Tail(succs))
            ELSE LET r == make_node(g, wrt, LoadName(g.at[node].nm), g.at[node].sg, <<>>, "load-state")
                     t == EdgeType(g, node, s)
                     g1 == IF t = "" THEN AddEdgeNoType(r.g, r.id, s)
                           ELSE AddEdge(r.g, r.id, s, t)
                 IN LoadStates(RemoveEdge(g1, node, s), wrt, node, aggregated, Tail(succs))

\* save_state(graph, wrt, node): ok is FALSE when graph.edges[(wrt, node)] raises
\* KeyError, which happens after the aggregation node has been added.
save_state(g, wrt, node) ==
    LET r == add_aggregation(g, node, wrt, SaveName, "save-state")
    IN IF ~HasEdge(r.g, wrt, node) THEN [ok |-> FALSE, g |-> r.g]
       ELSE LET g1 == AddEdge(r.g, wrt, node, "load-state")
            IN [ok |-> TRUE,
                g |-> LoadStates(g1, wrt, node, r.id, Successors(g1, node))]

\* ------------------------------------------------------------------ compile
\* G.copy(): nodes keep their order, the edges are added source by source in
\* node order, each source's edges in adjacency order.
RECURSIVE CopyEdges(_, _, _)
CopyEdges(es, n, top) ==
    IF n > top THEN <<>>
    ELSE SelectSeq(es, LAMBDA x : x.u = n) \o CopyEdges(es, n + 1, top)

Copy(g) == [g EXCEPT !.e = CopyEdges(g.e, 0, g.nx)]

\* ------------------------------------------- preserve_state_for_subqueries
\* The walks of n edges of EP that leave start.
RECURSIVE WalksFrom(_, _, _)
WalksFrom(EP, start, n) ==
    IF n = 0 THEN {<<start>>}
    ELSE UNION {{Append(w, q[2]) : q \in {x \in EP : x[1] = w[Len(w)]}} :
                   w \in WalksFrom(EP, start, n - 1)}

\* nx.shortest_path(dag, start, node): the shortest paths from start to node,
\* of which networkx returns one; the empty set when there is none (n counts
\* the edges tried so far, top the most a path can have).
RECURSIVE ShortestFrom(_, _, _, _, _)
ShortestFrom(EP, start, node, n, top) ==
    LET found == {w \in WalksFrom(EP, start, n) : w[Len(w)] = node}
    IN IF found # {} THEN found
       ELSE IF n >= top THEN {}
       ELSE ShortestFrom(EP, start, node, n + 1, top)

shortest_path(g, start, node) ==
    ShortestFrom({q \in Pairs(g) : EdgeType(g, q[1], q[2]) # "wrt"},
                 start, node, 0, Cardinality(Nodes(g)))

\* The for/else of preserve_state_for_subqueries over the reversed path: k is
\* the position in path of the node b looked at.  The result is the node wrt
\* at which the loop breaks, or the exception raised.
RECURSIVE FindTraversal(_, _, _)
FindTraversal(g, path, k) ==
    IF k < 2 THEN [raised |-> "ValueError", wrt |-> NoNode]
    ELSE LET t == EdgeType(g, path[k - 1], path[k])
         IN IF t = "" THEN [raised |-> "KeyError", wrt |-> NoNode]
            ELSE IF t = "traversal" THEN [raised |-> "", wrt |-> path[k - 1]]
            ELSE FindTraversal(g, path, k - 1)

CollectName == <<0 - 3>>

UnwindName == <<0 - 4>>

\* Moves to node unwound the edges out of node listed in outs (those to the
\* aggregated node stay).
RECURSIVE MoveOutEdges(_, _, _, _, _)
MoveOutEdges(g, node, unwound, aggregated, outs) ==
    IF outs = <<>> THEN g
    ELSE LET x == Head(outs)
             g1 == IF x.t = "" THEN AddEdgeNoType(g, unwound, x.v)
                   ELSE AddEdge(g, unwound, x.v, x.t)
         IN IF x.v = aggregated
            THEN MoveOutEdges(g, node, unwound, aggregated, Tail(outs))
            ELSE MoveOutEdges(RemoveEdge(g1, node, x.v), node, unwound, aggregated, Tail(outs))

\* The wrt edges into node are drawn to node unwound as well, and those into
\* node are left in place.
RECURSIVE MoveInEdgesCopied(_, _, _, _)
MoveInEdgesCopied(g, node, unwound, ins) ==
    IF ins = <<>> THEN g
    ELSE MoveInEdgesCopied(AddEdge(g, Head(ins).u, unwound, "wrt"), node, unwound, Tail(ins))

\* Moves to node unwound the wrt edges into node listed in ins.
RECURSIVE MoveInEdges(_, _, _, _)
MoveInEdges(g, node, unwound, ins) ==
    IF ins = <<>> THEN g
    ELSE MoveInEdges(RemoveEdge(AddEdge(g, Head(ins).u, unwound, "wrt"), Head(ins).u, node),
                     node, unwound, Tail(ins))

\* preserve_state_for_subqueries(graph, start, node), path being the shortest
\* path networkx returned: the exception raised ("" for none) and the graph.
preserve_state_for_subqueries(g, path, node) ==
    LET found == FindTraversal(g, path, Len(path))
        agg == add_aggregation(g, node, found.wrt, CollectName, "pre-subquery")
        unw == make_node(agg.g, agg.id, UnwindName, g.at[node].sg, <<>>, "unwind")
        outs == SelectSeq(unw.g.e, LAMBDA x : x.u = node)
        g1 == MoveOutEdges(unw.g, node, unw.id, agg.id, outs)
        ins == SelectSeq(g1.e, LAMBDA x : x.v = node /\ x.t = "wrt")
    IN IF found.raised # "" THEN [raised |-> found.raised, g |-> g]
       ELSE [raised |-> "", g |-> MoveInEdges(g1, node, unw.id, ins)]

\* The edges of g in the order graph.edges lists them (source by source in
\* node order), which is the order of the edges of a copy.
EdgeOrder(g) == Copy(g).e

\* The edges into node n in the order graph.in_edges(n) lists them.
InEdges(g, n) == SelectSeq(g.e, LAMBDA x : x.v = n)

\* any(graph.edges[e]['type'] == 'operation' for e in in_edges): "yes", "no",
\* or "KeyError" at an edge without a type met before an operation edge.
RECURSIVE AnyOperation(_)
AnyOperation(es) ==
    IF es = <<>> THEN "no"
    ELSE IF Head(es).t = "" THEN "KeyError"
    ELSE IF Head(es).t = "operation" THEN "yes"
    ELSE AnyOperation(Tail(es))

RECURSIVE RephraseScan(_, _)
RephraseScan(g, es) ==
    IF es = <<>> THEN "None"
    ELSE IF Head(es).t = "" THEN "KeyError"
    ELSE IF Head(es).t = "filter" /\ AnyOperation(InEdges(g, Head(es).v)) = "yes"
         THEN "NotImplementedError"
    ELSE IF Head(es).t = "filter" /\ AnyOperation(InEdges(g, Head(es).v)) = "KeyError"
         THEN "KeyError"
    ELSE RephraseScan(g, Tail(es))

\* What rephrase_filtered_operations(graph) does: it returns None or raises.
rephrase_filtered_operations(g) == RephraseScan(g, EdgeOrder(g))

Top == stack[Len(stack)]

\* The output nodes tried: the MaxOutputAge + 1 newest nodes of the graph.
OutputChoices(g) == {n \in Nodes(g) : n + MaxOutputAge + 1 >= g.nx}

Running == status = "run" /\ stack # <<>>

\* traverse_query_graph(G.G, output, G.start) is called: the activation works on
\* a copy of the caller's graph.
Compile ==
    /\ status = "build"
    /\ \E o \in OutputChoices(G) :
          /\ output' = o
          /\ original_graph' = Copy(G)
          /\ stack' = <<Frame(Copy(G), <<>>, 0, o, FALSE)>>
    /\ status' = "run"
    /\ statements' = <<>>
    /\ kind' = LoopKind(original_graph', stack'[1])
    /\ steps' = 0
    /\ UNCHANGED <<G, order, previous, diff, writer>>

\* A branch is found at the current node: its sub-graph is walked first.
Descend ==
    /\ Running
    /\ kind = "descend"
    /\ LET f == Top
           g == original_graph
           v == Shown(g, f.G)
           EP == v.es \ f.dhe
           ns == v.ns
           A == Head(Adjacent(g.e, v.es \ f.bhe, f.node, FALSE, 1))
       IN \E first \in TopologicalFirst(Sources(EP, SubDag(EP, ns, A, f.node)), order) :
            LET branch == BranchNodes(EP, ns, A, f.node, first)
                sub == Append(f.G, Layer(ns \ branch, {<<A, f.node>>}, A))
            IN stack' = Append(stack, Frame(g, sub, f.node, A, TRUE))
    /\ kind' = LoopKind(original_graph, stack'[Len(stack')])
    /\ steps' = steps + 1
    /\ UNCHANGED <<G, original_graph, statements, status, output, order, previous, diff, writer>>

\* The caller goes round its loop again without removing the aggregation edge
\* and the aggregation node of the branch just walked.
AscendKeepsNode ==
    /\ Running
    /\ Len(stack) > 1
    /\ kind = "return"
    /\ stack' = SubSeq(stack, 1, Len(stack) - 1)
    /\ kind' = LoopKind(original_graph, stack'[Len(stack')])
    /\ steps' = steps + 1
    /\ UNCHANGED <<G, original_graph, statements, status, output, order, previous, diff, writer>>

\* The walk of a branch is over: the caller removes the aggregation edge back
\* to the anchor and the aggregation node, and goes round its loop again.
Ascend ==
    /\ Running
    /\ Len(stack) > 1
    /\ kind = "return"
    /\ LET A == Top.output
           N == Top.start
       IN IF HasEdge(original_graph, A, N)
          THEN /\ original_graph' = RemoveNode(RemoveEdge(original_graph, A, N), A)
               /\ stack' = SubSeq(stack, 1, Len(stack) - 1)
               /\ status' = status
               /\ kind' = LoopKind(original_graph', stack'[Len(stack')])
          ELSE /\ status' = "NetworkXError"
               /\ kind' = "stop"
               /\ UNCHANGED <<original_graph, stack>>
    /\ steps' = steps + 1
    /\ UNCHANGED <<G, statements, output, order, previous, diff, writer>>

\* The outermost activation returns.
Finish ==
    /\ Running
    /\ Len(stack) = 1
    /\ kind = "return"
    /\ status' = "done"
    /\ kind' = "stop"
    /\ steps' = steps + 1
    /\ UNCHANGED <<G, original_graph, stack, statements, output, order, previous, diff, writer>>

\* The loop body raises before it yields.
Raise ==
    /\ Running
    /\ kind \in {"NodeNotFound", "NetworkXError", "Cycle", "KeyError", "Fatal"}
    /\ status' = kind
    /\ kind' = "stop"
    /\ steps' = steps + 1
    /\ UNCHANGED <<G, original_graph, stack, statements, output, order, previous, diff, writer>>

\* The fragment of the edge to the next successor is yielded; inside a branch
\* the state of a successor needed outside is saved; the edge is consumed.
Emit ==
    /\ Running
    /\ kind = "emit"
    /\ LET f == Top
           g == original_graph
           s == Head(SuccessorList(g, f, Shown(g, f.G).es))
           frag == [a |-> f.node, b |-> s, t |-> EdgeType(g, f.node, s), agg |-> f.agg]
           check == IF f.agg /\ s # f.output THEN has_outside_dependencies(g, f, s) ELSE "no"
           saved == save_state(g, f.start, s)
       IN /\ statements' = Append(statements, frag)
          /\ IF check = "KeyError"
             THEN /\ status' = "KeyError"
                  /\ kind' = "stop"
                  /\ UNCHANGED <<original_graph, stack>>
             ELSE IF check = "yes" /\ ~saved.ok
             THEN /\ status' = "KeyError"
                  /\ kind' = "stop"
                  /\ original_graph' = saved.g
                  /\ UNCHANGED stack
             ELSE IF check = "yes"
             THEN LET view == Append(f.G, Layer({}, {}, f.output))
                      f1 == Frame(saved.g, view, s, f.output, f.agg)
                  IN /\ original_graph' = RemoveEdge(saved.g, f.node, s)
                     /\ stack' = [stack EXCEPT ![Len(stack)] = [f1 EXCEPT !.start = f.start]]
                     /\ status' = status
                     /\ kind' = LoopKind(original_graph', stack'[Len(stack')])
             ELSE /\ original_graph' = RemoveEdge(g, f.node, s)
                  /\ stack' = [stack EXCEPT ![Len(stack)].node = s]
                  /\ status' = status
                  /\ kind' = LoopKind(original_graph', stack'[Len(stack')])
    /\ steps' = steps + 1
    /\ UNCHANGED <<G, output, order, previous, diff, writer>>

Walk == Descend \/ Ascend \/ Finish \/ Raise \/ Emit

\* A compilation is over and the same graph is compiled again, from the same
\* start node to the same output node, on an independent copy.
Recompile ==
    /\ status \notin {"build", "run"}
    /\ previous = <<>>
    /\ previous' = <<[statements |-> statements, status |-> status]>>
    /\ original_graph' = Copy(G)
    /\ stack' = <<Frame(Copy(G), <<>>, 0, output, FALSE)>>
    /\ status' = "run"
    /\ statements' = <<>>
    /\ kind' = LoopKind(original_graph', stack'[1])
    /\ steps' = 0
    /\ UNCHANGED <<G, output, order, diff, writer>>

Next == Build \/ Compile \/ Walk

Spec == Init /\ [][Next]_vars

\* preserve_state_for_subqueries(graph, start, node) is called on the graph
\* built: stack records the call, kind the exception raised ("preserved" for
\* none), original_graph the graph the call leaves.
PreserveState ==
    /\ status = "build"
    /\ \E start \in Nodes(G), node \in Nodes(G) :
          IF shortest_path(G, start, node) = {}
          THEN /\ stack' = <<[start |-> start, node |-> node, path |-> <<>>]>>
               /\ kind' = "NetworkXNoPath"
               /\ original_graph' = G
          ELSE \E path \in shortest_path(G, start, node) :
                 LET r == preserve_state_for_subqueries(G, path, node)
                 IN /\ stack' = <<[start |-> start, node |-> node, path |-> path]>>
                    /\ kind' = IF r.raised = "" THEN "preserved" ELSE r.raised
                    /\ original_graph' = r.g
    /\ status' = "called"
    /\ UNCHANGED <<G, statements, output, steps, order, previous, diff, writer>>

NextPreserve == Build \/ PreserveState

\* Builder sessions that end with a call of preserve_state_for_subqueries.
SpecPreserve == Init /\ [][NextPreserve]_vars

\* Sessions under one implementation of topological_sort in which a graph may
\* be compiled twice.
InitTwice ==
    /\ GraphInit
    /\ order \in {"first", "last"}
    /\ diff = NoDiff
    /\ writer = NoWriter

NextTwice == Build \/ Compile \/ Walk \/ Recompile

SpecTwice == InitTwice /\ [][NextTwice]_vars

\* save_state(graph, wrt, node) is called on the graph built: stack records
\* the call, kind the exception raised ("saved" for none), original_graph the
\* graph the call leaves.
SaveState ==
    /\ status = "build"
    /\ \E wrt \in Nodes(G), node \in Nodes(G) :
          LET r == save_state(G, wrt, node)
          IN /\ stack' = <<[wrt |-> wrt, node |-> node]>>
             /\ kind' = IF r.ok THEN "saved" ELSE "KeyError"
             /\ original_graph' = r.g
    /\ status' = "save"
    /\ UNCHANGED <<G, statements, output, steps, order, previous, diff, writer>>

NextSave == Build \/ SaveState

\* Builder sessions that end with a call of save_state.
SpecSave == Init /\ [][NextSave]_vars

\* ------------------------------------------------- get_branches as a call
\* The sequences that list every node of S once.
RECURSIVE Orderings(_)
Orderings(S) ==
    IF S = {} THEN {<<>>}
    ELSE UNION {{<<x>> \o q : q \in Orderings(S \ {x})} : x \in S}

\* list(nx.topological_sort(sub_dag)): an ordering of S in which no node comes
\* before a node it is reached from, and which starts with a node the sort in
\* use yields first.
TopologicalSorts(EP, S, ord) ==
    {q \in Orderings(S) :
        /\ \A i \in 1..Len(q) : \A j \in 1..Len(q) : i < j => <<q[j], q[i]>> \notin EP
        /\ q # <<>> => q[1] \in TopologicalFirst(Sources(EP, S), ord)}

\* The lists list(topological_sort(sub_dag))[1:] + [future_aggregation, parent].
BranchLists(EP, ns, A, parent, ord) ==
    {(IF q = <<>> THEN q ELSE Tail(q)) \o <<A, parent>> :
        q \in TopologicalSorts(EP, SubDag(EP, ns, A, parent), ord)}

\* The lists of branches the loop over backwards.predecessors(parent) may
\* build from the predecessors preds[k..].
RECURSIVE BranchProduct(_, _, _, _, _, _)
BranchProduct(EP, ns, preds, k, parent, ord) ==
    IF k > Len(preds) THEN {<<>>}
    ELSE UNION {{<<b>> \o rest : rest \in BranchProduct(EP, ns, preds, k + 1, parent, ord)} :
                   b \in BranchLists(EP, ns, preds[k], parent, ord)}

\* compare_two_dags(dag1, dag2), the function cmp_to_key wraps.
compare_two_dags(dag1, dag2) ==
    IF \E i \in 1..Len(dag1) : \E j \in 1..Len(dag2) : dag1[i] = dag2[j] THEN 1
    ELSE IF \E j \in 1..Len(dag2) : \E i \in 1..Len(dag1) : dag2[j] = dag1[i] THEN 0 - 1
    ELSE 0

\* Where list.sort puts the branch b in the sorted list done: after the last
\* element that is not greater than b (the sort is stable and moves b before x
\* only when key(b) < key(x), that is when compare_two_dags(b, x) < 0).
RECURSIVE InsertSorted(_, _)
InsertSorted(done, b) ==
    IF done = <<>> THEN <<b>>
    ELSE IF compare_two_dags(b, done[Len(done)]) < 0
         THEN Append(InsertSorted(SubSeq(done, 1, Len(done) - 1), b), done[Len(done)])
    ELSE Append(done, b)

\* branches.sort(key=compare_two_dags)
RECURSIVE SortBranches(_, _)
SortBranches(bs, k) ==
    IF k = 0 THEN <<>>
    ELSE InsertSorted(SortBranches(bs, k - 1), bs[k])

\* get_branches whose flag does not look for an unwind edge into parent.
get_branches_unflagged(g, parent, ord) ==
    LET EP == {p \in Pairs(g) : EdgeType(g, p[1], p[2]) # "wrt"}
        WP == Pairs(g) \ EP
        preds == Adjacent(g.e, WP, parent, FALSE, 1)
    IN [raised |-> IF \E p \in EP : p[2] = parent /\ EdgeType(g, p[1], p[2]) = ""
                   THEN "KeyError" ELSE "",
        branches |-> {SortBranches(bs, Len(bs)) :
                         bs \in BranchProduct(EP, Nodes(g), preds, 1, parent, ord)},
        needs_preserving |-> TRUE]

\* get_branches(dag, backwards, parent) on the views of the whole graph g: the
\* lists of branches it may return and the flag returned with them (no edge
\* of the dependency graph into parent is an unwind edge), or KeyError when
\* the last line reads the type of an edge into parent that has none.
get_branches(g, parent, ord) ==
    LET EP == {p \in Pairs(g) : EdgeType(g, p[1], p[2]) # "wrt"}
        WP == Pairs(g) \ EP
        preds == Adjacent(g.e, WP, parent, FALSE, 1)
    IN [raised |-> IF \E p \in EP : p[2] = parent /\ EdgeType(g, p[1], p[2]) = ""
                   THEN "KeyError" ELSE "",
        branches |-> {SortBranches(bs, Len(bs)) :
                         bs \in BranchProduct(EP, Nodes(g), preds, 1, parent, ord)},
        needs_preserving |->
            ~\E p \in EP : p[2] = parent /\ EdgeType(g, p[1], p[2]) = "unwind"]

\* get_branches is called on the graph built: stack records the node asked
\* for and the branches returned, kind the exception raised ("branches" for
\* none).
GetBranches ==
    /\ status = "build"
    /\ \E parent \in Nodes(G) :
          LET r == get_branches(G, parent, order)
          IN IF r.raised # ""
             THEN /\ stack' = <<[parent |-> parent, branches |-> <<>>]>>
                  /\ kind' = r.raised
             ELSE /\ \E bs \in r.branches : stack' = <<[parent |-> parent, branches |-> bs]>>
                  /\ kind' = "branches"
    /\ status' = "asked"
    /\ UNCHANGED <<G, original_graph, statements, output, steps, order, previous, diff, writer>>

NextBranches == Build \/ GetBranches

\* Builder sessions that end with a call of get_branches.
SpecBranches == Init /\ [][NextBranches]_vars

\* ------------------------------------------------------------- schema.py
Factors == 1..MaxFactors

\* diff_hierarchy_schema_node for a hierarchy the schema already holds: found
\* are the stored factors, proposed the factors of the new definition, other
\* says that idname, names, labels, parents or children differ in a way that
\* is refused.  The result is the exception raised, an update of the stored
\* factors, or no change.
diff_hierarchy_schema_node(found, proposed, other) ==
    LET missing_factors == proposed \ found
    IN IF other \/ missing_factors # {} THEN "AttemptedSchemaViolation"
       ELSE IF proposed # found THEN "update"
       ELSE "unchanged"

InitDiff ==
    /\ GraphInit
    /\ order = "any"
    /\ writer = NoWriter
    /\ \E f \in SUBSET Factors, q \in SUBSET Factors, o \in BOOLEAN :
          diff = [found |-> f, proposed |-> q, other |-> o, result |-> "idle"]

DiffHierarchy ==
    /\ diff.result = "idle"
    /\ diff' = [diff EXCEPT !.result =
                    diff_hierarchy_schema_node(diff.found, diff.proposed, diff.other)]
    /\ UNCHANGED <<G, original_graph, stack, statements, status, output, kind, steps,
                   order, previous, writer>>

NextDiff == DiffHierarchy

\* One call of diff_hierarchy_schema_node on a stored hierarchy.
SpecDiff == InitDiff /\ [][NextDiff]_vars

Hier == 1..MaxHier

\* The orders sorted() may give the hierarchies: ascending in the number of
\* children, parents and products, hierarchies of equal key in any order.
SortedQueues(deps) ==
    {q \in [1..MaxHier -> Hier] :
        /\ \A i \in 1..MaxHier : \A j \in 1..MaxHier : i # j => q[i] # q[j]
        /\ \E products \in [Hier -> 0..MaxProducts] :
              \A i \in 1..(MaxHier - 1) :
                 Cardinality(deps[q[i]]) + products[q[i]]
                    <= Cardinality(deps[q[i + 1]]) + products[q[i + 1]]}

Written(w) == {w.done[k] : k \in 1..Len(w.done)}

\* The test left out: a hierarchy is written as soon as it is met.
AllDoneUnchecked(w, hier) == TRUE

\* Every parent and child of hier except hier itself is already written.
AllDone(w, hier) == (w.deps[hier] \ {hier}) \subseteq Written(w)

\* The test made one postponement early: nmisses + 1 == len(hierarchies).
ResolutionImpossibleEarly(w) == w.nmisses + 1 = Len(w.queue)

\* nmisses == len(hierarchies): every hierarchy left has been postponed since
\* the last one was written.
ResolutionImpossible(w) == w.nmisses = Len(w.queue)

InitWrite ==
    /\ GraphInit
    /\ order = "any"
    /\ diff = NoDiff
    /\ \E deps \in [Hier -> SUBSET Hier], template \in [Hier -> BOOLEAN],
          refused \in [Hier -> BOOLEAN] :
         \E q \in SortedQueues(deps) :
            writer = [deps |-> deps, template |-> template, refused |-> refused,
                      queue |-> q, done |-> <<>>, executed |-> <<>>,
                      nmisses |-> 0, st |-> "run"]

\* One iteration of the loop of write_schema, or its end, where the updates
\* gathered are executed unless the call is a dry run.  The call of
\* diff_hierarchy_schema_node raises for the hierarchies the stored schema
\* refuses; the stored schema does not change while the loop runs, so it
\* refuses the same hierarchies throughout (writer.refused).
WriteSchemaStep ==
    /\ writer.st = "run"
    /\ LET hier == Head(writer.queue)
           rest == Tail(writer.queue)
       IN IF writer.queue = <<>>
          THEN \E dryrun \in BOOLEAN :
                  writer' = [writer EXCEPT !.st = "returned",
                                !.executed = IF dryrun THEN <<>> ELSE writer.done]
          ELSE IF ResolutionImpossible(writer)
          THEN writer' = [writer EXCEPT !.st = "AttemptedSchemaViolation"]
          ELSE IF writer.template[hier]
          THEN writer' = [writer EXCEPT !.queue = rest]
          ELSE IF ~AllDone(writer, hier)
          THEN writer' = [writer EXCEPT !.queue = Append(rest, hier),
                                        !.nmisses = writer.nmisses + 1]
          ELSE IF writer.refused[hier]
          THEN writer' = [writer EXCEPT !.queue = rest,
                                        !.st = "AttemptedSchemaViolation"]
          ELSE writer' = [writer EXCEPT !.queue = rest, !.nmisses = 0,
                                        !.done = Append(writer.done, hier)]
    /\ steps' = steps + 1
    /\ UNCHANGED <<G, original_graph, stack, statements, status, output, kind,
                   order, previous, diff>>

NextWrite == WriteSchemaStep

\* One call of write_schema on MaxHier hierarchies.
SpecWrite == InitWrite /\ [][NextWrite]_vars

\* ------------------------------------------------------------------ claims
Terminal == status \notin {"build", "run"}

\* The dependency graph: the edges of a kind other than wrt.
DagPairs(g) == {p \in Pairs(g) : EdgeType(g, p[1], p[2]) # "wrt"}

\* The nodes add_aggregation made: the targets of the aggr edges.
Aggregations(g) == {g.e[k].v : k \in {j \in 1..Len(g.e) : g.e[j].t = "aggr"}}

WrtTargets(g, A) == {p[2] : p \in {q \in Pairs(g) : q[1] = A /\ EdgeType(g, q[1], q[2]) = "wrt"}}

AnchorOf(g, A) == CHOOSE w \in WrtTargets(g, A) : TRUE

ParentOf(g, A) == CHOOSE p \in Nodes(g) : HasEdge(g, p, A) /\ EdgeType(g, p, A) = "aggr"

\* The nodes inside the branch of aggregation A: ancestors of A that are neither
\* the scope anchor nor its ancestors.
Inside(g, A) ==
    Ancestors(DagPairs(g), A) \ (Ancestors(DagPairs(g), AnchorOf(g, A)) \cup {AnchorOf(g, A)})

\* Node n is the start node or the target of a fragment before the k-th.
Produced(k, n) == n = 0 \/ \E j \in 1..(k - 1) : statements[j].b = n

\* A fragment of kind t comes before the k-th.
KindBefore(k, t) == \E j \in 1..(k - 1) : statements[j].t = t

\* C1 Topological validity: at every point of every compilation, the source
\* node of each fragment emitted so far is the start node or the target of a
\* fragment emitted strictly earlier.
TopologicalValidity ==
    \A k \in 1..Len(statements) : Produced(k, statements[k].a)

\* A compilation that walked an aggregation branch, came back to the start
\* node and went on from it.
TopologicalValidityWitness ==
    /\ status = "done"
    /\ Len(statements) >= 3
    /\ statements[1].agg
    /\ \E k \in 2..Len(statements) : statements[k].a = 0 /\ ~statements[k].agg

\* C2 Scope precedes use: a fragment whose edge leads to a node that has the
\* aggregation node A as parent or as dependency is emitted only after the
\* fragment of A's aggregation edge.
ScopePrecedesUse ==
    \A A \in Aggregations(G) : \A k \in 1..Len(statements) :
        <<A, statements[k].b>> \in DagPairs(G) =>
            \E j \in 1..(k - 1) : statements[j].b = A /\ statements[j].t = "aggr"

\* The nodes add_filter made, and the dependency_nodes of each.
FilterNodes(g) == {g.e[k].v : k \in {j \in 1..Len(g.e) : g.e[j].t = "filter"}}

DepsOf(g, n) == {g.e[k].u : k \in {j \in 1..Len(g.e) : g.e[j].t = "dep" /\ g.e[j].v = n}}

\* C3 A filter is never emitted before one of its inputs: when the fragment of
\* the filter edge of a node made by add_filter is emitted, every node of its
\* dependency_nodes is the start node or the target of an earlier fragment.
FilterAfterInputs ==
    \A F \in FilterNodes(G) : \A k \in 1..Len(statements) :
        (statements[k].b = F /\ statements[k].t = "filter") =>
            \A d \in DepsOf(G, F) : Produced(k, d)

\* Node N inside the branch of aggregation A, whose scope anchor is an ancestor
\* of A, is consumed by the branch and by c outside the branch.
Forks(g) ==
    {x \in [A : Aggregations(g), N : Nodes(g), c : Nodes(g)] :
        /\ AnchorOf(g, x.A) \in Ancestors(DagPairs(g), ParentOf(g, x.A))
        /\ x.N \in Inside(g, x.A)
        /\ <<x.N, x.c>> \in DagPairs(g)
        /\ x.c \notin Ancestors(DagPairs(g), x.A) \cup {x.A}}

\* C4 Checkpoint necessity, on the graphs of the specification's construction
\* (no dependency edges, the later consumer a traversal from N): when a node N
\* inside an aggregation branch, at any depth, is consumed by the branch and by
\* a later traversal outside it, the compilation completes and a save-state
\* and a load-state fragment come before the fragment of the later consumer.
CheckpointNecessity ==
    (/\ Terminal
     /\ DepEdges(G) = {}
     /\ \A A \in Aggregations(G) : AnchorOf(G, A) \in Ancestors(DagPairs(G), ParentOf(G, A))
     /\ Forks(G) # {})
    => /\ status = "done"
       /\ KindBefore(Len(statements) + 1, "save-state")
       /\ KindBefore(Len(statements) + 1, "load-state")
       /\ \A x \in Forks(G) : \A k \in 1..Len(statements) :
             statements[k].b = x.c => KindBefore(k, "save-state") /\ KindBefore(k, "load-state")

\* No node inside an aggregation branch has a consumer outside that branch.
NoOutsideConsumer(g) ==
    \A A \in Aggregations(g) : \A N \in Inside(g, A) : \A p \in DagPairs(g) :
        p[1] = N => p[2] \in Inside(g, A) \cup {A}

\* C5 A checkpoint is emitted only when needed: when no node inside any
\* aggregation branch has a consumer (a node that has it as parent or as
\* dependency) outside that branch, no save-state and no load-state fragment
\* is ever emitted.
CheckpointOnlyWhenNeeded ==
    NoOutsideConsumer(G) =>
        \A k \in 1..Len(statements) : statements[k].t \notin {"save-state", "load-state"}

\* The end-to-end scenario: runs = traversal(OB), red = filter(runs, []),
\* count = aggregation(red, wrt=OB), result = filter(OB, [count]); OB is node 0.
ScenarioGraph ==
    LET runs == add_traversal(add_start(EmptyGraph).g, 0)
        red == add_filter(runs.g, runs.id, <<>>)
        count == add_aggregation(red.g, red.id, 0, <<red.g.nx>>, "aggr")
        result == add_filter(count.g, 0, <<count.id>>)
    IN result.g

Kinds(sts) == [k \in 1..Len(sts) |-> sts[k].t]

\* C6 End-to-end scenario: compiled from OB with output result, the scenario
\* graph yields exactly the four fragments traversal, filter, aggregation,
\* filter, in this order, and no checkpoint fragment; the compilation does not
\* raise.
EndToEndScenario ==
    (G = ScenarioGraph /\ output = 4 /\ Terminal) =>
        /\ status = "done"
        /\ Kinds(statements) = <<"traversal", "filter", "aggr", "filter">>

EndToEndScenarioWitness ==
    G = ScenarioGraph /\ output = 4 /\ status = "done" /\ Len(statements) = 4

\* The graph is a chain of n traversals from the start node and nothing else.
IsChain(g, n) ==
    /\ Nodes(g) = 0..n
    /\ g.e = [k \in 1..n |-> [u |-> k - 1, v |-> k, t |-> "traversal"]]

\* C7 Pure traversal chain: a chain of n traversals compiles, without raising,
\* to exactly n fragments, the k-th being that of the k-th traversal edge.
PureTraversalChain ==
    \A n \in 0..(MaxNodes - 1) :
        (IsChain(G, n) /\ Terminal) =>
            /\ status = "done"
            /\ statements = [k \in 1..n |->
                  [a |-> k - 1, b |-> k, t |-> "traversal", agg |-> FALSE]]

PureTraversalChainWitness ==
    IsChain(G, 3) /\ status = "done" /\ Len(statements) = 3

\* C8 Acyclicity preserved: after any sequence of Builder calls the graph
\* restricted to the edges of a kind other than wrt has no cycle.
AcyclicityPreserved == ~HasCycle(DagPairs(G), Nodes(G))

\* A graph of five nodes with a dependency edge in which a wrt edge closes a
\* cycle of the full graph.
AcyclicityPreservedWitness ==
    /\ Cardinality(Nodes(G)) = 5
    /\ DepEdges(G) # {}
    /\ HasCycle(Pairs(G), Nodes(G))

\* C9 After any sequence of Builder calls every aggregation node has exactly
\* one outgoing wrt edge, and its target is a strict ancestor of the
\* aggregation node in the dependency graph (add_aggregation having refused
\* every scope anchor that is not an ancestor of the parent).
AggregationAnchored ==
    \A A \in Aggregations(G) :
        /\ Cardinality(WrtTargets(G, A)) = 1
        /\ AnchorOf(G, A) \in Ancestors(DagPairs(G), A)

\* Every scope anchor is an ancestor of the aggregated parent, and every
\* dependency node shares an ancestor with the node that uses it.
WellFormed(g) ==
    /\ \A A \in Aggregations(g) :
          AnchorOf(g, A) \in Ancestors(DagPairs(g), ParentOf(g, A)) \cup {ParentOf(g, A)}
    /\ \A k \in DepEdges(g) :
          AncFix(DagPairs(g), {g.e[k].u}) \cap AncFix(DagPairs(g), {g.e[k].v}) # {}

\* C10 A well-formed graph never reaches the fatal state: its compilation
\* never raises the 'more than one unaggregated successor' error.
WellFormedNeverFatal == WellFormed(G) => status # "Fatal"

\* nx.has_path(G, n, output): the nodes from which output can be reached along
\* edges of any kind, output included.
PathTo(g, out) == AncFix(Pairs(g), {out})

\* C11 Dead work is dropped: no fragment is emitted for an edge whose target
\* is a node of the input graph without a path to output, and no fragment is
\* emitted after one that reaches output.
DeadWorkDropped ==
    \A k \in 1..Len(statements) :
        /\ statements[k].b \in Nodes(G) => statements[k].b \in PathTo(G, output)
        /\ statements[k].b = output => k = Len(statements)

\* The loop iterations a compilation of graph g may take: four for each edge
\* of g and for g itself.
StepBound(g) == 4 * (Len(g.e) + 1)

\* C12 Compilation terminates: the number of loop iterations (fragments
\* yielded, branches entered and left, the final return or raise) a compilation
\* has taken never exceeds a bound fixed by the size of the graph compiled, so
\* no compilation loops or recurses for ever.
CompilationTerminates == status # "build" => steps <= StepBound(G)

\* A compilation that finished after save_state had added nodes and edges to
\* the graph during the walk of a branch.
CompilationTerminatesWitness ==
    /\ status = "done"
    /\ \E k \in 1..Len(statements) : statements[k].t = "save-state"
    /\ \E k \in 1..Len(statements) : statements[k].t = "load-state"

CompilationDestructive ==
    Terminal => \A k \in 1..Len(statements) :
                   ~HasEdge(G, statements[k].a, statements[k].b)

\* A filter is applied to a node produced by add_operation.
FilteredOperation(g) ==
    \E k \in 1..Len(g.e) : g.e[k].t = "filter" /\ g.e[k].u \in OpNodes(g)

\* C15 Unsupported construct fails fast: for a graph in which a filter is
\* applied to a node produced by add_operation, rephrase_filtered_operations
\* raises NotImplementedError and no statement is produced.
UnsupportedFailsFast ==
    FilteredOperation(G) =>
        /\ rephrase_filtered_operations(G) = "NotImplementedError"
        /\ statements = <<>>

\* The edge kinds the Builder's vocabulary has.
EdgeKinds == {"traversal", "filter", "aggr", "wrt", "operation", "dep"}

\* C18 After any sequence of Builder calls every edge of the graph carries a
\* kind of the vocabulary; the dependency edges of add_filter and of
\* add_operation carry the dependency kind.
EveryEdgeHasKind == \A k \in 1..Len(G.e) : G.e[k].t \in EdgeKinds

\* The identities (attribute i) of the nodes of g are pairwise different.
DistinctIdentities(g) ==
    \A n \in Nodes(g) : \A m \in Nodes(g) : n # m => g.at[n].i # g.at[m].i

\* C17 Node identities are unique for the life of a graph: no identity is
\* assigned twice, in the graph the Builder grows and in the graph a
\* compilation works on, where save_state makes nodes after other nodes have
\* been removed.
UniqueIdentities == DistinctIdentities(G) /\ DistinctIdentities(original_graph)

\* The call of preserve_state_for_subqueries a session of SpecPreserve made.
Called == status = "called"

\* No edge on the path from start to node is of kind traversal.
NoTraversalOnPath(g, path) ==
    \A k \in 2..Len(path) : EdgeType(g, path[k - 1], path[k]) # "traversal"

\* C16 A branch without a traversal is a fatal error: when no edge on the
\* dependency-graph path from start to node is a traversal (node = start
\* included), preserve_state_for_subqueries raises ValueError and leaves the
\* graph as it was.
NoTraversalIsFatal ==
    (Called /\ stack[1].path # <<>> /\ NoTraversalOnPath(G, stack[1].path)) =>
        kind = "ValueError" /\ original_graph = G

\* C19 Backwards-compatible factor changes are accepted: for a hierarchy of
\* the schema whose proposed definition differs from the stored one in its
\* factors only, diff_hierarchy_schema_node raises AttemptedSchemaViolation
\* exactly when the proposed factors are not a superset of the stored ones.
FactorChangesAccepted ==
    (diff.result # "idle" /\ ~diff.other) =>
        (diff.result = "AttemptedSchemaViolation" <=> ~(diff.found \subseteq diff.proposed))

\* C20 write_schema generates the updates in dependency order: a hierarchy
\* written is not a template, every hierarchy it names as parent or child,
\* itself apart, is written before it, no hierarchy is written twice, and
\* when write_schema returns every hierarchy that is not a template is written.
WrittenInDependencyOrder ==
    /\ \A k \in 1..Len(writer.done) :
          /\ ~writer.template[writer.done[k]]
          /\ \A d \in writer.deps[writer.done[k]] \ {writer.done[k]} :
                \E j \in 1..(k - 1) : writer.done[j] = d
          /\ \A j \in 1..Len(writer.done) : j # k => writer.done[j] # writer.done[k]
    /\ writer.st = "returned" =>
          \A h \in Hier : ~writer.template[h] => h \in Written(writer)

\* write_schema returned after writing three hierarchies of which the second
\* needs the first (and refers to itself) and the third needs the second.
WrittenInDependencyOrderWitness ==
    /\ writer.st = "returned"
    /\ writer.done = <<3, 1, 2>>
    /\ writer.deps[1] = {1, 3}
    /\ 1 \in writer.deps[2]

\* The hierarchies that can be written when none is refused: the least set W
\* of hierarchies that are no templates and whose parents and children,
\* themselves apart, are in W.
RECURSIVE Writable(_, _)
Writable(w, W) ==
    LET W2 == W \cup {h \in Hier : ~w.template[h] /\ (w.deps[h] \ {h}) \subseteq W}
    IN IF W2 = W THEN W ELSE Writable(w, W2)

\* Some hierarchy that is no template can never have its dependencies written.
Unresolvable(w) == \E h \in Hier : ~w.template[h] /\ h \notin Writable(w, {})

\* The dependencies, self-references apart, have a cycle.
CyclicDependencies(w) ==
    HasCycle({p \in Hier \X Hier : p[1] # p[2] /\ p[1] \in w.deps[p[2]]}, Hier)

WriterOver == writer.st \in {"returned", "AttemptedSchemaViolation"}

\* The iterations of the loop of write_schema over n hierarchies, its end
\* included: each write is preceded by fewer postponements than the queue is
\* long.
WriteBound == (MaxHier * (MaxHier + 1)) \div 2 + 1

Asked == status = "asked" /\ kind = "branches"

\* The aggregation nodes of g that have a wrt edge to n.
AnchoredAt(g, n) == {A \in Nodes(g) : HasEdge(g, A, n) /\ EdgeType(g, A, n) = "wrt"}

\* The nodes the branch of A at n is to list before A: the ancestors of A in
\* the dependency graph that are neither n nor ancestors of n.
BranchInterior(g, A, n) ==
    Ancestors(DagPairs(g), A) \ (Ancestors(DagPairs(g), n) \cup {n})

\* List b is branch of A at n: the interior once each, in topological order,
\* then A, then n.
IsBranchOf(g, b, A, n) ==
    /\ Len(b) = Cardinality(BranchInterior(g, A, n)) + 2
    /\ {b[i] : i \in 1..(Len(b) - 2)} = BranchInterior(g, A, n)
    /\ \A i \in 1..(Len(b) - 2) : \A j \in 1..(Len(b) - 2) :
          i < j => b[j] \notin Ancestors(DagPairs(g), b[i])
    /\ b[Len(b) - 1] = A
    /\ b[Len(b)] = n
    /\ \A i \in 1..(Len(b) - 1) : b[i] # n

\* C22 get_branches(dag, backwards, N) returns exactly one branch per
\* aggregation node A that has a wrt edge to N, and each branch lists the
\* ancestors of A that are neither N nor ancestors of N, in topological
\* order, followed by A and then N; N is in a branch only as its last element.
BranchesAsSpecified ==
    Asked =>
        LET bs == stack[1].branches
            n == stack[1].parent
        IN /\ Len(bs) = Cardinality(AnchoredAt(G, n))
           /\ \A A \in AnchoredAt(G, n) :
                 \E k \in 1..Len(bs) : IsBranchOf(G, bs[k], A, n)

\* Branch y contains the aggregation node of branch x.
DependsOn(y, x) == \E i \in 1..(Len(y) - 2) : y[i] = x[Len(x) - 1]

\* C23 Branch ordering: in the list get_branches returns, a branch that is a
\* dependency of another comes before it, so the first branch depends on no
\* other branch of the node; and the comparison is antisymmetric: it does not
\* put each of two branches after the other.
BranchOrdering ==
    Asked =>
        LET bs == stack[1].branches
        IN \A i \in 1..Len(bs) : \A j \in 1..Len(bs) :
              i # j =>
                 /\ DependsOn(bs[j], bs[i]) => i < j
                 /\ ~(compare_two_dags(bs[i], bs[j]) > 0 /\ compare_two_dags(bs[j], bs[i]) > 0)

\* The call of preserve_state_for_subqueries returned.
Preserved == Called /\ kind = "preserved"

EdgeSet(g) == {g.e[k] : k \in 1..Len(g.e)}

\* The nodes the call made: the checkpoint aggregation and the unwind node.
CheckpointNode == G.nx

UnwindNode == G.nx + 1

\* C24 Re-attachment: after preserve_state_for_subqueries(graph, start, N)
\* the only outgoing edge of N leads to the new checkpoint aggregation node,
\* every edge that left N before leaves the unwind node with the same target
\* and kind, every wrt edge that pointed into N points into the unwind node,
\* and no other edge has changed: the edges are those of the graph before that
\* neither leave N nor are wrt edges into N, the edges moved, and the three
\* edges that attach the two new nodes.
Reattachment ==
    Preserved =>
        LET N == stack[1].node
            before == EdgeSet(G)
            after == EdgeSet(original_graph)
            left == {x \in before : x.u = N}
            into == {x \in before : x.v = N /\ x.t = "wrt"}
            moved == {[x EXCEPT !.u = UnwindNode] : x \in left}
                        \cup {[x EXCEPT !.v = UnwindNode] : x \in into}
            attached == {x \in after : \/ x.u = N
                                        \/ (x.u = CheckpointNode /\ x.t = "wrt")
                                        \/ (x.u = CheckpointNode /\ x.v = UnwindNode)}
        IN /\ {x \in after : x.u = N} = {[u |-> N, v |-> CheckpointNode, t |-> "pre-subquery"]}
           /\ Cardinality({x \in after : x.u = CheckpointNode /\ x.t = "wrt"}) = 1
           /\ [u |-> CheckpointNode, v |-> UnwindNode, t |-> "unwind"] \in after
           /\ moved \subseteq after
           /\ after = ((before \ (left \cup into)) \cup moved) \cup attached
           /\ Cardinality(after) = Cardinality(before) + 3

\* The call rewired a node that had two outgoing edges and a wrt edge into it.
ReattachmentWitness ==
    /\ Preserved
    /\ Cardinality({x \in EdgeSet(G) : x.u = stack[1].node}) >= 2
    /\ \E x \in EdgeSet(G) : x.v = stack[1].node /\ x.t = "wrt"

\* What save_state(g0, wrt, node) is to leave as g1: the edge wrt -> node is a
\* load-state edge, the only edge out of node leads to the new save-state
\* aggregation node, which has a wrt edge to wrt, and each edge that left node
\* leaves a new node of its own, loaded from wrt, with its target and kind.
StateSaved(g0, g1, wrt, node) ==
    LET agg == g0.nx
        news == Nodes(g1) \ (Nodes(g0) \cup {agg})
        former == {x \in EdgeSet(g0) : x.u = node}
    IN /\ [u |-> wrt, v |-> node, t |-> "load-state"] \in EdgeSet(g1)
       /\ agg \in Nodes(g1) \ Nodes(g0)
       /\ {x \in EdgeSet(g1) : x.u = node} = {[u |-> node, v |-> agg, t |-> "save-state"]}
       /\ [u |-> agg, v |-> wrt, t |-> "wrt"] \in EdgeSet(g1)
       /\ Cardinality(news) = Cardinality(former)
       /\ \A x \in former : \E L \in news :
             /\ [u |-> wrt, v |-> L, t |-> "load-state"] \in EdgeSet(g1)
             /\ {y \in EdgeSet(g1) : y.u = L} = {[x EXCEPT !.u = L]}

\* C25 save_state(graph, wrt, node), called where the edge wrt -> node
\* exists, replaces the traversal by a load: afterwards the edge wrt -> node
\* has kind load-state, the only successor of node is the new save-state
\* aggregation node, which has a wrt edge to wrt, and every former successor
\* s of node is reached from its own newly created node L through edges
\* wrt -load-state-> L and L -> s, the latter with the kind of node -> s.
SaveStateReplaces ==
    (status = "save" /\ kind = "saved") =>
        StateSaved(G, original_graph, stack[1].wrt, stack[1].node)

\* save_state returned for a node that had two successors.
SaveStateReplacesWitness ==
    /\ status = "save"
    /\ kind = "saved"
    /\ Cardinality({x \in EdgeSet(G) : x.u = stack[1].node}) >= 2

\* C26 No double emission: during one compilation the fragment of an edge is
\* emitted at most once; no two fragments emitted have the same source and
\* the same target.
NoDoubleEmission ==
    \A j \in 1..Len(statements) : \A k \in 1..Len(statements) :
        (statements[j].a = statements[k].a /\ statements[j].b = statements[k].b) => j = k

\* A compilation finished after it had emitted six fragments, a load-state
\* fragment among them, and had left two branches.
NoDoubleEmissionWitness ==
    /\ status = "done"
    /\ Len(statements) >= 6
    /\ \E k \in 1..Len(statements) : statements[k].t = "load-state"
    /\ Cardinality({statements[k].b : k \in {j \in 1..Len(statements) : statements[j].t = "aggr"}}) = 2

\* The aggregation edge into A has been emitted.
AggregationEmitted(A) ==
    \E k \in 1..Len(statements) : statements[k].b = A /\ statements[k].t = "aggr"

\* C27 No branch is silently dropped: when a compilation finishes without
\* error, the aggregation edge of every aggregation node that has a path to
\* output has been emitted, also when several aggregation branches share one
\* scope anchor.
NoBranchDropped ==
    status = "done" =>
        \A A \in Aggregations(G) : A \in PathTo(G, output) => AggregationEmitted(A)

\* C28 On every graph produced by Builder calls a compilation either completes
\* or raises the structural error NetworkXUnfeasible (more than one
\* unaggregated successor, or a cycle met by the topological sort); it never
\* fails with a lookup error.
NoLookupError ==
    Terminal => status \in {"done", "Fatal", "Cycle"}

\* Graph h is graph g with one node added: the nodes of g keep their
\* attributes, the edges of g keep their places and kinds, and every edge
\* added has the new node at one end.
Appended(g, h) ==
    /\ Nodes(g) \subseteq Nodes(h)
    /\ Cardinality(Nodes(h) \ Nodes(g)) = 1
    /\ \A m \in Nodes(g) : h.at[m] = g.at[m]
    /\ Len(h.e) > Len(g.e)
    /\ SubSeq(h.e, 1, Len(g.e)) = g.e
    /\ \A k \in (Len(g.e) + 1)..Len(h.e) :
          h.e[k].u \notin Nodes(g) \/ h.e[k].v \notin Nodes(g)

\* C29 The Builder is append-only: each call of add_traversal, add_filter,
\* add_aggregation or add_operation adds exactly one new node, adds only edges
\* incident to that node, and leaves every existing node, with its name,
\* reachability snapshot and scalars, and every existing edge and its kind
\* unchanged.
BuilderAppendOnly == [][Build => Appended(G, G')]_vars

\* A graph of five nodes built with a filter on a dependency, an aggregation
\* and an operation made on an aggregation node, whose scalars it inherits.
BuilderAppendOnlyWitness ==
    /\ Cardinality(Nodes(G)) = 5
    /\ FilterNodes(G) # {}
    /\ DepEdges(G) # {}
    /\ \E n \in OpNodes(G) : Len(G.at[n].sc) = 2

\* The aggregation nodes of the branches bs, in the order of the branches.
BranchAggregations(bs) == [k \in 1..Len(bs) |-> bs[k][Len(bs[k]) - 1]]

\* The test parse2 makes before it calls preserve_state_for_subqueries for
\* node n: get_branches returned branches and the needs-checkpoint flag.
ForkAt(g, n) ==
    LET r == get_branches(g, n, order)
    IN r.raised = "" /\ r.branches # {<<>>} /\ r.needs_preserving

\* C30 The checkpoint rewrite is applied at most once per fork: after
\* preserve_state_for_subqueries(graph, start, N) for a node N at which
\* get_branches reported branches that need a checkpoint, get_branches reports
\* no branch at N, and reports at the new unwind node one branch for each
\* aggregation node that had a branch at N, in the same order and ending with
\* the unwind node, with the needs-checkpoint flag false; the dependency
\* graph stays acyclic.
RewriteOncePerFork ==
    (Preserved /\ ForkAt(G, stack[1].node)) =>
        LET N == stack[1].node
            formerly == get_branches(G, N, order)
            atN == get_branches(original_graph, N, order)
            atUnwind == get_branches(original_graph, UnwindNode, order)
        IN /\ atN.raised = ""
           /\ atN.branches = {<<>>}
           /\ atUnwind.raised = ""
           /\ ~atUnwind.needs_preserving
           /\ \A bs \in atUnwind.branches :
                 /\ \E fs \in formerly.branches :
                       BranchAggregations(bs) = BranchAggregations(fs)
                 /\ \A k \in 1..Len(bs) : bs[k][Len(bs[k])] = UnwindNode
           /\ ~HasCycle(DagPairs(original_graph), Nodes(original_graph))

\* The rewrite was made at a node that had the branches of two aggregation
\* nodes, which are both found at the unwind node afterwards.
RewriteOncePerForkWitness ==
    /\ Preserved
    /\ ForkAt(G, stack[1].node)
    /\ Cardinality(AnchoredAt(G, stack[1].node)) = 2
    /\ Cardinality(AnchoredAt(original_graph, UnwindNode)) = 2

====
